---- MODULE Spec2Model ----
(***************************************************************************)
(* A model of src/SmkmStore.py: the three SMKM_STORE field resolvers       *)
(* (sks_ststore, sks_compressedregionptrarray, sks_storeownerprocess) and  *)
(* the _dump operation that invokes them through Info.arch_fns.            *)
(*                                                                         *)
(* Scaling.  The source generates an 8192-byte pattern and works on 8-bit  *)
(* bytes and 32/64-bit registers.  Here the pattern is PatLen bytes long,  *)
(* a byte is a digit of radix ByteRadix, and a register of width w holds a *)
(* number below ByteRadix^w.  The pointer widths (4 and 8 bytes) and the   *)
(* byte order of struct.pack are those of the source.                      *)
(***************************************************************************)
EXTENDS Integers, Sequences, FiniteSets, TLC

\* ------------------------------------------------------------- bounds
\* Length of the pattern (patgen(8192) in the source, scaled down).
PatLen == 9
\* A byte is a digit 0 .. ByteRadix-1 (256 in the source, scaled down).
ByteRadix == 8
\* Number of regions the emulator's allocator can hand out.
MaxRegions == 2
\* Number of memory access events delivered to mHook in one emulation run.
MaxEvents == 3

\* ---------------------------------------------------- program constants
\* struct_fmt "<I": 4 bytes; "<Q": 8 bytes.
Width32 == 4
Width64 == 8
\* The access type mHook compares against (unicorn's UC_MEM_READ).
UC_MEM_READ == 16

\* --------------------------------------------------------------- values
\* Python's None, and a present value, as sequences of length 0 and 1.
None == <<>>
Some(x) == <<x>>

Archs == {"x86", "x64"}
Fields == {"sks_ststore", "sks_compressedregionptrarray", "sks_storeownerprocess"}

\* unicorn's UC_MEM_READ and UC_MEM_WRITE (the next constant of the enum).
AccessTypes == {UC_MEM_READ, UC_MEM_READ + 1}

\* Emulated address space: page 0 (null references), the regions the
\* allocator hands out (never at address 0), and a stack address on top.
PageSize == PatLen + 1
MemTop == PageSize * (MaxRegions + 1)
AddrSpace == 0 .. MemTop
Bases == {PageSize * i : i \in 1 .. MaxRegions}

\* A returned integer, a raised exception, or nothing yet.
NoRes == [kind |-> "none", val |-> 0, err |-> ""]
IntRes(v) == [kind |-> "int", val |-> v, err |-> ""]
ErrRes(e) == [kind |-> "err", val |-> 0, err |-> e]

RECURSIVE Pow(_, _)
Pow(b, n) == IF n = 0 THEN 1 ELSE b * Pow(b, n - 1)

\* Mutant of ArchOf: the bitness is not consulted.
ArchOf_always64(is64) == "x64"

\* 'x64' if self.Info.is_64bit() else 'x86'
ArchOf(is64) == IF is64 THEN "x64" ELSE "x86"

\* reg_cx = 'rcx' if self.Info.is_64bit() else 'ecx'
reg_cx(is64) == IF is64 THEN "rcx" ELSE "ecx"

\* struct_fmt = "<Q" if self.Info.is_64bit() else "<I"
struct_fmt(is64) == IF is64 THEN "<Q" ELSE "<I"

\* Number of bytes struct.pack emits for a format.
FmtWidth(fmt) == IF fmt = "<Q" THEN Width64 ELSE Width32

\* Width in bytes of a cx register name.
RegWidth(reg) == IF reg = "rcx" THEN Width64 ELSE Width32

\* ------------------------------------------------- bytes and patterns
\* The number a register holds after a little-endian load of the w bytes
\* of p at zero-based offset k (the emulated mov reg, [base+k]).
RECURSIVE LoadLE(_, _, _)
LoadLE(p, k, w) ==
    IF w = 0 THEN 0 ELSE p[k + 1] + ByteRadix * LoadLE(p, k + 1, w - 1)

\* Mutant of struct_pack: most significant byte first (">" for "<").
struct_pack_be(fmt, v) ==
    [i \in 1 .. FmtWidth(fmt) |->
        (v \div Pow(ByteRadix, FmtWidth(fmt) - i)) % ByteRadix]

\* struct.pack(fmt, v): v as FmtWidth(fmt) bytes, least significant first.
struct_pack(fmt, v) ==
    [i \in 1 .. FmtWidth(fmt) |-> (v \div Pow(ByteRadix, i - 1)) % ByteRadix]

\* Whether sub occurs in p at zero-based index i.
MatchAt(p, sub, i) ==
    /\ i + Len(sub) <= Len(p)
    /\ \A j \in 1 .. Len(sub) : p[i + j] = sub[j]

\* bytes.find(sub): the lowest zero-based index where sub occurs, else -1.
RECURSIVE FindFrom(_, _, _)
FindFrom(p, sub, i) ==
    IF i + Len(sub) > Len(p) THEN -1
    ELSE IF MatchAt(p, sub, i) THEN i
    ELSE FindFrom(p, sub, i + 1)

find(p, sub) == FindFrom(p, sub, 0)

\* Every w-byte window of p occurs at one offset only.
WindowUnique(p, w) ==
    \A i, j \in 0 .. Len(p) - w :
        (\A d \in 1 .. w : p[i + d] = p[j + d]) => i = j

\* The byte values the pattern generator uses (its character set, scaled
\* down to two characters).
PatBytes == {1, 2}

\* patgen(size): a size-byte pattern whose 4-byte windows (and therefore
\* its 8-byte windows) are pairwise distinct.
patgen(size) ==
    {p \in [1 .. size -> PatBytes] : WindowUnique(p, Width32)}

\* The patterns a dump run is explored with: one representative.
DumpPats == {CHOOSE p \in patgen(PatLen) : TRUE}

\* ---------------------------------------------------------------- state
VARIABLES
    is64,        \* Info.is_64bit()
    arch_fns,    \* Info.arch_fns: arch -> names registered for it
    dpc,         \* position in _dump ("direct": a resolver called directly)
    log,         \* lines _dump has logged: <<label, value>>
    fn,          \* the resolver executing ("none" outside one)
    pc,          \* position in the resolver
    res,         \* what the resolver returned or raised
    pat,         \* local pat
    base,        \* local lp_smkmstore / addr_smkmstore
    mHookData,   \* the dictionary mHook closes over
    cx,          \* the emulated rcx/ecx register
    reg_ecx,     \* local reg_ecx
    endAddr,     \* local endAddr
    regions,     \* base addresses the emulator has mapped (loadBytes)
    nEvents,     \* access events delivered in the current run
    firstRead,   \* history: address of the first READ event of the run
    firstNZRead, \* history: address of the first READ event at a non-zero address
    readInRange, \* history: some READ event of the run was inside the pattern
    loadedFrom,  \* history: the offset cx was loaded from, if it was
    cxAtEntry,   \* history: cx when the first emulated instruction ran
    stoppedAt,   \* history: the address the bounded emulation stopped at
    trace,       \* history: the steps of the current resolution, in order
    resolutions, \* history: per resolution, its emulation runs and regions
    invoked      \* history: the <<arch, name>> resolvers _dump has invoked

vars == <<is64, arch_fns, dpc, log, fn, pc, res, pat, base, mHookData, cx,
          reg_ecx, endAddr, regions, nEvents, firstRead, firstNZRead,
          readInRange, loadedFrom, cxAtEntry, stoppedAt, trace, resolutions,
          invoked>>

dumpVars == <<dpc, log, invoked>>
envVars == <<is64, arch_fns>>
hookHist == <<nEvents, firstRead, firstNZRead, readInRange>>
sopVars == <<reg_ecx, endAddr, loadedFrom, stoppedAt, trace>>

\* The entry position of each resolver.
EntryPc(f) ==
    IF f = "sks_ststore" THEN "l62"
    ELSE IF f = "sks_compressedregionptrarray" THEN "l89"
    ELSE "l123"

NewResolution(f) == [field |-> f, runs |-> 0, loaded |-> {}, used |-> {}]

\* The history record of the resolution in progress, updated.
NoteLoaded(b) ==
    [resolutions EXCEPT ![Len(resolutions)].loaded = @ \cup {b}]
NoteRun(b) ==
    [resolutions EXCEPT ![Len(resolutions)].runs = @ + 1,
                        ![Len(resolutions)].used = @ \cup {b}]

\* A resolver is entered: fresh locals.
Enter(f) ==
    /\ fn' = f
    /\ pc' = EntryPc(f)
    /\ res' = NoRes
    /\ pat' = <<>>
    /\ base' = None
    /\ mHookData' = [offset |-> None, structAddr |-> None]
    /\ reg_ecx' = None
    /\ endAddr' = None
    /\ stoppedAt' = None
    /\ nEvents' = 0
    /\ firstRead' = None
    /\ firstNZRead' = None
    /\ readInRange' = FALSE
    /\ loadedFrom' = None
    /\ cxAtEntry' = None
    /\ trace' = <<>>
    /\ resolutions' = Append(resolutions, NewResolution(f))

\* A resolver returns v or raises e to its caller.
Leave(r) ==
    /\ res' = r
    /\ pc' = "returned"

\* The state before anything ran, with the resolver f entered directly.
InitWith(f, regs) ==
    /\ is64 \in BOOLEAN
    /\ arch_fns \in regs
    /\ dpc = IF f = "none" THEN "l44" ELSE "direct"
    /\ log = <<>>
    /\ fn = f
    /\ pc = IF f = "none" THEN "idle" ELSE EntryPc(f)
    /\ res = NoRes
    /\ pat = <<>>
    /\ base = None
    /\ mHookData = [offset |-> None, structAddr |-> None]
    /\ cx = 0
    /\ reg_ecx = None
    /\ endAddr = None
    /\ stoppedAt = None
    /\ regions = {}
    /\ nEvents = 0
    /\ firstRead = None
    /\ firstNZRead = None
    /\ readInRange = FALSE
    /\ loadedFrom = None
    /\ cxAtEntry = None
    /\ trace = <<>>
    /\ resolutions = IF f = "none" THEN <<>> ELSE <<NewResolution(f)>>
    /\ invoked = {}

\* The registry the decorators of this file build: every field, both archs.
FullRegistry == [a \in Archs |-> Fields]

\* --------------------------------------- sks_compressedregionptrarray
CRPA == "sks_compressedregionptrarray"

\* (fn_addr, fn_name) = self.find_ida_name("SmStMapVirtualRegion")
CRPA_find_ida_name ==
    /\ fn = CRPA /\ pc = "l89"
    /\ \/ /\ pc' = "l90"
          /\ UNCHANGED res
       \/ Leave(ErrRes("NotFound"))
    /\ UNCHANGED <<envVars, dumpVars, fn, pat, base, mHookData, cx, regions,
                   hookHist, cxAtEntry, sopVars, resolutions>>

\* pat = self.patgen(8192); lp_smkmstore = self.fe.loadBytes(pat);
\* mHookData = {'offset': None, 'structAddr': lp_smkmstore}
CRPA_loadBytes(pats) ==
    /\ fn = CRPA /\ pc = "l90"
    /\ \E p \in pats, b \in Bases \ regions :
        /\ pat' = p
        /\ base' = Some(b)
        /\ regions' = regions \cup {b}
        /\ mHookData' = [offset |-> None, structAddr |-> Some(b)]
        /\ resolutions' = NoteLoaded(b)
    /\ pc' = "l104"
    /\ UNCHANGED <<envVars, dumpVars, fn, res, cx, hookHist, cxAtEntry,
                   sopVars>>

\* regState = {reg_cx: lp_smkmstore}; self.fe.emulateRange(fn_addr, ...):
\* the run starts with cx holding the region's address.
CRPA_emulateRange ==
    /\ fn = CRPA /\ pc = "l104"
    /\ cx' = base[1]
    /\ cxAtEntry' = Some(base[1])
    /\ resolutions' = NoteRun(base[1])
    /\ pc' = "emu"
    /\ UNCHANGED <<envVars, dumpVars, fn, res, pat, base, mHookData, regions,
                   hookHist, sopVars>>

\* Python's truth value of mHookData['offset'].
Truthy(v) == v # None /\ v[1] # 0

\* Mutant of mHookOffset: the early return is missing, the last read wins.
mHookOffset_lastReadWins(offset, accessType, memAccessAddress) ==
    IF accessType = UC_MEM_READ THEN Some(memAccessAddress) ELSE offset

\* What mHook leaves in mHookData['offset'] for one access event.
mHookOffset(offset, accessType, memAccessAddress) ==
    IF Truthy(offset) THEN offset
    ELSE IF accessType = UC_MEM_READ THEN Some(memAccessAddress)
    ELSE offset

InPattern(b, a) == b <= a /\ a < b + PatLen

\* def mHook(uc, accessType, memAccessAddress, ...): one access event of
\* the emulated routine.
mHook(addrs) ==
    /\ fn = CRPA /\ pc = "emu"
    /\ nEvents < MaxEvents
    /\ \E accessType \in AccessTypes, a \in addrs :
        /\ mHookData' = [mHookData EXCEPT
                           !.offset = mHookOffset(@, accessType, a)]
        /\ firstRead' = IF accessType = UC_MEM_READ /\ firstRead = None
                        THEN Some(a) ELSE firstRead
        /\ firstNZRead' = IF accessType = UC_MEM_READ /\ firstNZRead = None
                             /\ a # 0
                          THEN Some(a) ELSE firstNZRead
        /\ readInRange' = (readInRange \/
                             (accessType = UC_MEM_READ /\ InPattern(base[1], a)))
    /\ nEvents' = nEvents + 1
    /\ UNCHANGED <<envVars, dumpVars, fn, pc, res, pat, base, cx, regions,
                   cxAtEntry, sopVars, resolutions>>

\* emulateRange returns: the emulated routine has run to its end.
CRPA_emulateRange_end ==
    /\ fn = CRPA /\ pc = "emu"
    /\ pc' = "l105"
    /\ UNCHANGED <<envVars, dumpVars, fn, res, pat, base, mHookData, cx,
                   regions, hookHist, cxAtEntry, sopVars, resolutions>>

\* Mutant of Subtract: a missing offset counts as 0.
Subtract_noneAsZero(offset, structAddr) ==
    IF offset = None THEN IntRes(0 - structAddr[1])
    ELSE IntRes(offset[1] - structAddr[1])

\* Mutant of Subtract: the recorded address is returned as it is.
Subtract_noBase(offset, structAddr) ==
    IF offset = None THEN ErrRes("TypeError")
    ELSE IntRes(offset[1])

\* mHookData['offset'] - mHookData['structAddr']; None - int raises.
Subtract(offset, structAddr) ==
    IF offset = None THEN ErrRes("TypeError")
    ELSE IntRes(offset[1] - structAddr[1])

\* return mHookData['offset'] - mHookData['structAddr']
CRPA_return ==
    /\ fn = CRPA /\ pc = "l105"
    /\ Leave(Subtract(mHookData.offset, mHookData.structAddr))
    /\ UNCHANGED <<envVars, dumpVars, fn, pat, base, mHookData, cx, regions,
                   hookHist, cxAtEntry, sopVars, resolutions>>

\* One resolution of pCompressedRegionPtrArray, called directly, over every
\* address of the emulated address space.
InitAccess == InitWith(CRPA, {FullRegistry})

NextAccess ==
    \/ CRPA_find_ida_name
    \/ CRPA_loadBytes(DumpPats)
    \/ CRPA_emulateRange
    \/ mHook(AddrSpace)
    \/ CRPA_emulateRange_end
    \/ CRPA_return

SpecAccess == InitAccess /\ [][NextAccess]_vars

\* ------------------------------------------------- sks_storeownerprocess
SOP == "sks_storeownerprocess"

\* The (start, end) address pairs locate_call_in_fn can return: the end
\* address is that of the instruction after the call.
CallSites == {<<1, 2>>, <<1, 3>>}

\* (startAddr, endAddr) = self.locate_call_in_fn("?SmStDirectRead@...",
\* "KiStackAttachProcess")
SOP_locate_call_in_fn ==
    /\ fn = SOP /\ pc = "l123"
    /\ \/ /\ \E site \in CallSites : endAddr' = Some(site[2])
          /\ pc' = "l124"
          /\ UNCHANGED res
       \/ /\ \E e \in {"CallNotFound", "MultipleCallSites"} : Leave(ErrRes(e))
          /\ UNCHANGED endAddr
    /\ UNCHANGED <<envVars, dumpVars, fn, pat, base, mHookData, cx, regions,
                   hookHist, cxAtEntry, reg_ecx, loadedFrom, stoppedAt, trace,
                   resolutions>>

\* Mutant of SOP_loadBytes: the region of an earlier resolution is used
\* again when there is one, and nothing is loaded.
SOP_loadBytes_reuse(pats) ==
    /\ fn = SOP /\ pc = "l124"
    /\ \E p \in pats, b \in (IF regions = {} THEN Bases ELSE regions) :
        /\ pat' = p
        /\ base' = Some(b)
        /\ regions' = regions \cup {b}
        /\ resolutions' = IF b \in regions THEN resolutions ELSE NoteLoaded(b)
    /\ trace' = Append(trace, "loadBytes")
    /\ pc' = "l133"
    /\ UNCHANGED <<envVars, dumpVars, fn, res, mHookData, cx, hookHist,
                   cxAtEntry, reg_ecx, endAddr, loadedFrom, stoppedAt>>

\* pat = self.patgen(8192); addr_smkmstore = self.fe.loadBytes(pat)
SOP_loadBytes(pats) ==
    /\ fn = SOP /\ pc = "l124"
    /\ \E p \in pats, b \in Bases \ regions :
        /\ pat' = p
        /\ base' = Some(b)
        /\ regions' = regions \cup {b}
        /\ resolutions' = NoteLoaded(b)
    /\ trace' = Append(trace, "loadBytes")
    /\ pc' = "l133"
    /\ UNCHANGED <<envVars, dumpVars, fn, res, mHookData, cx, hookHist,
                   cxAtEntry, reg_ecx, endAddr, loadedFrom, stoppedAt>>

\* The value a register of the given name holds after v is written to it.
reg_write(reg, v) == v % Pow(ByteRadix, RegWidth(reg))

\* Mutant of SOP_pHook: the hook runs but writes no register.
SOP_pHook_skipped ==
    /\ fn = SOP /\ pc = "l133"
    /\ trace' = Append(trace, "pHook")
    /\ pc' = "emuStart"
    /\ UNCHANGED <<envVars, dumpVars, fn, res, pat, base, mHookData, cx,
                   regions, hookHist, cxAtEntry, reg_ecx, endAddr, loadedFrom,
                   stoppedAt, resolutions>>

\* self.fe.iterate([endAddr], self.tHook, preEmuCallback=pHook): pHook runs
\* first: uc.reg_write(regs["cx"], addr_smkmstore)
SOP_pHook ==
    /\ fn = SOP /\ pc = "l133"
    /\ cx' = reg_write(reg_cx(is64), base[1])
    /\ trace' = Append(trace, "pHook")
    /\ pc' = "emuStart"
    /\ UNCHANGED <<envVars, dumpVars, fn, res, pat, base, mHookData, regions,
                   hookHist, cxAtEntry, reg_ecx, endAddr, loadedFrom,
                   stoppedAt, resolutions>>

\* iterate: the first emulated instruction executes.
SOP_emuStart ==
    /\ fn = SOP /\ pc = "emuStart"
    /\ cxAtEntry' = Some(cx)
    /\ resolutions' = NoteRun(base[1])
    /\ trace' = Append(trace, "emuStart")
    /\ pc' = "emuRun"
    /\ UNCHANGED <<envVars, dumpVars, fn, res, pat, base, mHookData, cx,
                   regions, hookHist, reg_ecx, endAddr, loadedFrom, stoppedAt>>

\* What the emulated code up to the call can leave in cx, given that cx
\* pointed at the loaded pattern p: cx untouched, cx loaded from the
\* pattern at an offset k, or such a loaded value changed by arithmetic.
EmuFinalCx(p, w, c) ==
    {[v |-> c, from |-> None]}
    \cup {[v |-> LoadLE(p, k, w), from |-> Some(k)] : k \in 0 .. Len(p) - w}
    \cup {[v |-> (LoadLE(p, k, w) + 1) % Pow(ByteRadix, w), from |-> None] :
             k \in 0 .. Len(p) - w}

\* iterate: emulation reaches the target address and stops there.
SOP_emuStop ==
    /\ fn = SOP /\ pc = "emuRun"
    /\ \E f \in EmuFinalCx(pat, RegWidth(reg_cx(is64)), cx) :
        /\ cx' = f.v
        /\ loadedFrom' = f.from
    /\ stoppedAt' = endAddr
    /\ trace' = Append(trace, "emuStop")
    /\ pc' = "l134"
    /\ UNCHANGED <<envVars, dumpVars, fn, res, pat, base, mHookData, regions,
                   hookHist, cxAtEntry, reg_ecx, endAddr, resolutions>>

\* reg_ecx = self.fe.getRegVal(reg_cx)
SOP_getRegVal ==
    /\ fn = SOP /\ pc = "l134"
    /\ reg_ecx' = Some(reg_write(reg_cx(is64), cx))
    /\ trace' = Append(trace, "getRegVal")
    /\ pc' = "l135"
    /\ UNCHANGED <<envVars, dumpVars, fn, res, pat, base, mHookData, cx,
                   regions, hookHist, cxAtEntry, endAddr, loadedFrom,
                   stoppedAt, resolutions>>

\* return pat.find(struct.pack(struct_fmt, reg_ecx))
SOP_return ==
    /\ fn = SOP /\ pc = "l135"
    /\ Leave(IntRes(find(pat, struct_pack(struct_fmt(is64), reg_ecx[1]))))
    /\ trace' = Append(trace, "find")
    /\ UNCHANGED <<envVars, dumpVars, fn, pat, base, mHookData, cx, regions,
                   hookHist, cxAtEntry, reg_ecx, endAddr, loadedFrom,
                   stoppedAt, resolutions>>

\* One resolution of StoreOwnerProcess, called directly, over every pattern
\* patgen can produce.
InitValue == InitWith(SOP, {FullRegistry})

NextValue ==
    \/ SOP_locate_call_in_fn
    \/ SOP_loadBytes(patgen(PatLen))
    \/ SOP_pHook
    \/ SOP_emuStart
    \/ SOP_emuStop
    \/ SOP_getRegVal
    \/ SOP_return

SpecValue == InitValue /\ [][NextValue]_vars

\* ----------------------------------------------------------- sks_ststore
STS == "sks_ststore"

\* return 0
sks_ststore ==
    /\ fn = STS /\ pc = "l62"
    /\ Leave(IntRes(0))
    /\ UNCHANGED <<envVars, dumpVars, fn, pat, base, mHookData, cx, regions,
                   hookHist, cxAtEntry, sopVars, resolutions>>

\* ----------------------------------------------------------------- _dump
\* The resolver name each logging line of _dump looks up, and its label.
FieldAt(l) ==
    IF l = "l45" THEN STS ELSE IF l = "l46" THEN CRPA ELSE SOP

LabelAt(l) ==
    IF l = "l45" THEN "StStore"
    ELSE IF l = "l46" THEN "pCompressedRegionPtrArray"
    ELSE "StoreOwnerProcess"

NextLine(l) ==
    IF l = "l45" THEN "l46" ELSE IF l = "l46" THEN "l47" ELSE "l48"

DumpLines == {"l45", "l46", "l47"}

\* arch = 'x64' if self.Info.is_64bit() else 'x86'
Dump_arch ==
    /\ dpc = "l44" /\ pc = "idle"
    /\ dpc' = "l45"
    /\ UNCHANGED <<envVars, log, invoked, fn, pc, res, pat, base, mHookData,
                   cx, regions, hookHist, cxAtEntry, sopVars, resolutions>>

\* self.Info.arch_fns[arch]['<name>'](self): the lookup, and the call of
\* what it finds; a name missing under arch raises KeyError out of _dump.
Dump_call ==
    /\ dpc \in DumpLines /\ pc = "idle"
    /\ LET a == ArchOf(is64)
           f == FieldAt(dpc)
       IN  \/ /\ f \in arch_fns[a]
              /\ invoked' = invoked \cup {<<a, f>>}
              /\ Enter(f)
              /\ UNCHANGED <<dpc, cx, regions>>
           \/ /\ f \notin arch_fns[a]
              /\ dpc' = "raised"
              /\ res' = ErrRes("KeyError")
              /\ UNCHANGED <<invoked, fn, pc, pat, base, mHookData, cx,
                             regions, hookHist, cxAtEntry, sopVars,
                             resolutions>>
    /\ UNCHANGED <<envVars, log>>

\* self.logger.info("<label>: {0:#x}".format(<returned integer>))
Dump_log ==
    /\ dpc \in DumpLines /\ pc = "returned" /\ res.kind = "int"
    /\ log' = Append(log, <<LabelAt(dpc), res.val>>)
    /\ dpc' = NextLine(dpc)
    /\ pc' = "idle"
    /\ UNCHANGED <<envVars, invoked, fn, res, pat, base, mHookData, cx,
                   regions, hookHist, cxAtEntry, sopVars, resolutions>>

\* Mutant of Dump_raise: the exception is swallowed and _dump goes on.
Dump_raise_swallowed ==
    /\ dpc \in DumpLines /\ pc = "returned" /\ res.kind = "err"
    /\ dpc' = NextLine(dpc)
    /\ pc' = "idle"
    /\ UNCHANGED <<envVars, log, invoked, fn, res, pat, base, mHookData, cx,
                   regions, hookHist, cxAtEntry, sopVars, resolutions>>

\* An exception raised by a resolver leaves _dump: nothing catches it.
Dump_raise ==
    /\ dpc \in DumpLines /\ pc = "returned" /\ res.kind = "err"
    /\ dpc' = "raised"
    /\ pc' = "idle"
    /\ UNCHANGED <<envVars, log, invoked, fn, res, pat, base, mHookData, cx,
                   regions, hookHist, cxAtEntry, sopVars, resolutions>>

\* The addresses a dump run's access events are explored with: page 0, the
\* stack, and the first two bytes of every region.
DumpAddrs == {0, MemTop} \cup Bases \cup {b + 1 : b \in Bases}

\* The registries the arch32/arch64 decorators can build: per arch, the
\* names decorated for it.
Registries == [Archs -> SUBSET Fields]

\* One _dump, from every registry and both bitnesses.
InitDump == InitWith("none", Registries)

NextDump ==
    \/ Dump_arch
    \/ Dump_call
    \/ Dump_log
    \/ Dump_raise
    \/ sks_ststore
    \/ CRPA_find_ida_name
    \/ CRPA_loadBytes(DumpPats)
    \/ CRPA_emulateRange
    \/ mHook(DumpAddrs)
    \/ CRPA_emulateRange_end
    \/ CRPA_return
    \/ SOP_locate_call_in_fn
    \/ SOP_loadBytes(DumpPats)
    \/ SOP_pHook
    \/ SOP_emuStart
    \/ SOP_emuStop
    \/ SOP_getRegVal
    \/ SOP_return

SpecDump == InitDump /\ [][NextDump]_vars

\* ------------------------------------- claims on the address resolver
\* sks_compressedregionptrarray has returned or raised.
CRPA_done == fn = CRPA /\ pc = "returned"

\* ... after its emulation run completed (it got past find_ida_name).
CRPA_ran == CRPA_done /\ cxAtEntry # None

\* C1: address round-trip.  When the first READ event delivered to the hook
\* during the run has address B + k with 0 <= k < PatLen, whatever writes
\* precede it and whatever events follow it, the resolver returns exactly k.
C1_AddressRoundTrip ==
    (CRPA_ran /\ firstRead # None /\ InPattern(base[1], firstRead[1]))
        => res = IntRes(firstRead[1] - base[1])

\* C1's case: a write, then a read inside the pattern at a non-zero offset,
\* then a further event, and the resolver has returned that offset.
C1_Witness ==
    /\ CRPA_ran /\ nEvents = MaxEvents
    /\ firstRead # None /\ InPattern(base[1], firstRead[1])
    /\ firstRead[1] > base[1]
    /\ res.kind = "int" /\ res.val = firstRead[1] - base[1]

\* C4 as stated: when the run completes without any READ inside the
\* pattern, the resolver fails and returns no offset.
C4_NoInRangeReadFails ==
    (CRPA_ran /\ ~readInRange) => res.kind = "err"

\* C4 amended: the resolver fails (None - int raises) exactly when no READ
\* event at all was delivered during the run; a run whose reads were all
\* outside the pattern returns an integer.
C4_NoReadFails ==
    CRPA_ran => (res.kind = "err" <=> firstRead = None)

\* C4's case: a run with events but no read, and the resolver has raised.
C4_Witness ==
    /\ CRPA_ran /\ nEvents > 0 /\ firstRead = None
    /\ res = ErrRes("TypeError")

C7_FirstAccessWins ==
    [][(pc = "emu" /\ pc' = "emu" /\ mHookData.offset # None)
          => mHookData'.offset = mHookData.offset]_vars

\* --------------------------------------- claims on the value resolver
\* sks_storeownerprocess has read the register (and perhaps returned).
SOP_done == fn = SOP /\ pc = "returned"

\* The pointer width of the detected bitness.
PtrWidth == IF is64 THEN Width64 ELSE Width32

\* C2: value round-trip.  On both bitnesses (8 bytes and rcx on 64-bit, 4
\* bytes and ecx on 32-bit), for every offset k with 0 <= k <= PatLen - w:
\* when the register read after emulation holds the number encoded by the w
\* pattern bytes at k, and the pattern's w-byte windows are unique, the
\* resolver returns exactly k.
C2_ValueRoundTrip ==
    (SOP_done /\ reg_ecx # None) =>
        \A k \in 0 .. PatLen - PtrWidth :
            (WindowUnique(pat, PtrWidth) /\ reg_ecx[1] = LoadLE(pat, k, PtrWidth))
                => res = IntRes(k)

\* C2's case: on 64-bit, cx was loaded from the last offset that holds a
\* whole pointer, and the resolver has returned that offset.
C2_Witness ==
    /\ SOP_done /\ is64
    /\ loadedFrom = Some(PatLen - Width64)
    /\ reg_ecx = Some(LoadLE(pat, PatLen - Width64, Width64))
    /\ res = IntRes(PatLen - Width64)

\* The packed register value occurs nowhere in the pattern.
ValueNotInPattern ==
    /\ fn = SOP /\ reg_ecx # None
    /\ \A i \in 0 .. Len(pat) :
          ~MatchAt(pat, struct_pack(struct_fmt(is64), reg_ecx[1]), i)

\* C3 as stated: when the packed value of cx occurs nowhere in the pattern,
\* the resolver fails and hands no integer to its caller (which, in _dump,
\* would log it as the StoreOwnerProcess offset).
C3_ValueNotFoundFails ==
    ValueNotInPattern => res.kind # "int"

\* The steps of a value-correlation run, in the order C10 states.
SOP_order == <<"loadBytes", "pHook", "emuStart", "emuStop", "getRegVal", "find">>

IsPrefix(t, u) == Len(t) <= Len(u) /\ \A i \in 1 .. Len(t) : t[i] = u[i]

\* C10: ordering of a value-correlation run.  The pattern is loaded before
\* emulation starts; the pre-emulation hook has written the loaded
\* pattern's address into cx when the first emulated instruction executes;
\* cx is read only after emulation has stopped at the end address that
\* locate_call_in_fn returned; the search happens only after that read.
C10_RunOrder ==
    fn = SOP =>
        /\ IsPrefix(trace, SOP_order)
        /\ cxAtEntry # None => (base # None /\ cxAtEntry = base
                                  /\ base[1] \in regions)
        /\ reg_ecx # None => (stoppedAt # None /\ stoppedAt = endAddr)
        /\ res.kind = "int" => reg_ecx # None

\* C10's case: a run that went through every step and returned.
C10_Witness ==
    /\ SOP_done /\ res.kind = "int"
    /\ trace = SOP_order
    /\ cxAtEntry = base /\ stoppedAt = endAddr /\ endAddr # None

\* ----------------------------------------------------- claims on _dump
DetectedArch == IF is64 THEN "x64" ELSE "x86"

\* The three logging lines of _dump, in order.
DumpOrder == <<"l45", "l46", "l47">>

\* _dump is over: it returned, or an exception left it.
DumpEnded == dpc \in {"l48", "raised"}

\* C6 as stated, for the registry this file's decorators build and the
\* failure of pCompressedRegionPtrArray at its last line: _dump isolates
\* field failures.  When _dump is over, the resolver of every field has
\* been invoked, whatever failed before it.
C6_FailuresIsolated ==
    (DumpEnded /\ arch_fns = FullRegistry /\ res.err \in {"", "TypeError"}) =>
        \A f \in arch_fns[DetectedArch] : <<DetectedArch, f>> \in invoked

\* C6 amended: _dump resolves the fields in the order StStore,
\* pCompressedRegionPtrArray, StoreOwnerProcess and logs each result as it
\* is returned; the first failure (a name not registered, or a resolver
\* that raises) leaves _dump at once, so no later field is resolved or
\* logged, while the lines logged before the failure stay logged.
C6_FirstFailureEndsDump ==
    LET n == Len(log)
    IN  /\ n <= 3
        /\ \A i \in 1 .. n : log[i][1] = LabelAt(DumpOrder[i])
        /\ \A i \in 1 .. 3 :
              <<DetectedArch, FieldAt(DumpOrder[i])>> \in invoked => i <= n + 1
        /\ dpc = "raised" => (n < 3 /\ res.kind = "err" /\ pc = "idle")
        /\ dpc = "l48" => n = 3

\* C6's case: pCompressedRegionPtrArray raised after StStore was logged, and
\* the registered StoreOwnerProcess resolver was never invoked.
C6_Witness ==
    /\ dpc = "raised" /\ Len(log) = 1
    /\ fn = CRPA /\ res = ErrRes("TypeError")
    /\ SOP \in arch_fns[DetectedArch]
    /\ <<DetectedArch, SOP>> \notin invoked

\* Resolution i is over and returned a value.
Resolved(i) ==
    \/ i < Len(resolutions)
    \/ i = Len(resolutions) /\ pc \in {"returned", "idle"} /\ res.kind = "int"

\* C8 as stated, with the registry this file's decorators build: every
\* resolution performs exactly one emulation run, on a pattern loaded
\* during that same resolution.
C8_OneRunEach ==
    \A i \in 1 .. Len(resolutions) :
        (Resolved(i) /\ arch_fns = FullRegistry) =>
            /\ resolutions[i].runs = 1
            /\ resolutions[i].used \subseteq resolutions[i].loaded

\* C8 amended: every resolution of pCompressedRegionPtrArray or
\* StoreOwnerProcess that returns a value performs exactly one emulation
\* run, on the one pattern it loaded itself, and no loaded region is used
\* by two resolutions; sks_ststore performs no emulation run and loads no
\* pattern, and no resolution performs more than one run.
C8_OneRunPerEmulatingResolution ==
    \A i \in 1 .. Len(resolutions) :
        LET r == resolutions[i]
        IN  /\ r.runs <= 1
            /\ r.used \subseteq r.loaded
            /\ Cardinality(r.loaded) <= 1
            /\ r.field = STS => (r.runs = 0 /\ r.loaded = {})
            /\ (r.field # STS /\ Resolved(i)) =>
                  (r.runs = 1 /\ Cardinality(r.used) = 1)
            /\ \A j \in 1 .. Len(resolutions) :
                  j # i => r.loaded \cap resolutions[j].loaded = {}

\* C8's case: one _dump has resolved all three fields.
C8_Witness ==
    /\ Len(resolutions) = 3 /\ Resolved(3)
    /\ resolutions[1].runs = 0
    /\ resolutions[2].runs = 1
    /\ resolutions[3].runs = 1
    /\ resolutions[2].used # resolutions[3].used

\* The number of the logging line that dispatches f.
LineOf(f) == IF f = STS THEN 1 ELSE IF f = CRPA THEN 2 ELSE 3

\* C9: architecture isolation.  _dump invokes only resolvers registered
\* under the detected bitness; a field with no resolver under it is never
\* invoked under either bitness, _dump does not get past its line, and the
\* lookup's failure (KeyError) is what ended _dump there.
C9_ArchIsolation ==
    /\ \A x \in invoked : x[1] = DetectedArch /\ x[2] \in arch_fns[DetectedArch]
    /\ \A f \in Fields \ arch_fns[DetectedArch] :
          /\ \A a \in Archs : <<a, f>> \notin invoked
          /\ Len(log) < LineOf(f)
          /\ dpc # "l48"
          /\ (dpc = "raised" /\ Len(log) = LineOf(f) - 1)
                => (res = ErrRes("KeyError") /\ fn # f)

\* C9's case: on 32-bit, a field registered for 64-bit only was looked up
\* after an earlier field had been resolved, and the lookup failed.
C9_Witness ==
    /\ ~is64 /\ dpc = "raised" /\ res = ErrRes("KeyError")
    /\ Len(log) = 1
    /\ CRPA \in arch_fns["x64"] /\ CRPA \notin arch_fns["x86"]
    /\ invoked = {<<"x86", STS>>}

====
